---- MODULE Spec2Model ----
(***************************************************************************)
(* Model of marketxtradermodel: the equilibrium price tracker              *)
(* (priceranges.py, class PriceRanges), the trading agent (trader.py,      *)
(* class Trader), the simulation driver (simulation.py) and the network    *)
(* populator (utilities.py, populate_graph).                               *)
(*                                                                         *)
(* Numbers.  The program computes with floats; the model computes with     *)
(* exact integers in fixed point: a price, quote, error sample or          *)
(* perceived price x is stored as Unit * x.  Quotes are whole numbers      *)
(* (even in fixed point), so every midpoint (a + b) / 2.0 is exact.        *)
(* Indices are Python's: 0-based, a negative index counts from the end.    *)
(***************************************************************************)
EXTENDS Integers, Sequences, FiniteSets, TLC

\* Fixed-point scale; it is the divisor 2.0 of the midpoints.
Unit == 2

\* math.inf, the "no solution" sentinel of _search_price and compute_price.
Inf == 1000000

\* Largest number of pairs inserted between two clear_prices calls.
MaxPairs == 3

\* Number of steps of the step sequence range(MaxT) handed to evolve.
MaxT == 2

VARIABLES
    prices,               \* PriceRanges._prices
    balance_differences,  \* PriceRanges._balance_differences
    balance,              \* PriceRanges._balance
    price_ref,            \* PriceRanges._price_ref
    inserted,             \* history: the pairs inserted since the last clear,
                          \* each with the reference price held at its insert
    outcome               \* the last call on the tracker: what it raised
                          \* ("none" when it returned), the price it returned
                          \* and the reference price held before the call

VARIABLES
    edges,          \* the DiGraph: the set of directed edges <<u, v>>
    memory_length,  \* the memory_length every Trader was constructed with
    A, B, C, D,     \* Trader.A, .B, .C, .D of every agent
    state,          \* Trader.state of every agent (an RRMem)
    eps,            \* Trader.eps of every agent (an RRMem)
    perc_price,     \* Trader.perc_price of every agent (an RRMem)
    t,              \* the element of the step sequence evolve is at
    pc,             \* where time_step is: "ready" between two steps,
                    \* "quote", "solve", "update" inside one, "raised" once
                    \* an exception left it
    node,           \* the position of the running node loop in graph.nodes
    step_price,     \* the local p of time_step
    used            \* history of the running step, per agent: the influence
                    \* sum and K computed by compute_price_points (quoted)
                    \* and by update_state (updated), the state update_state
                    \* wrote (written), and the state written in the step
                    \* before, or at construction before the first (prior)

VARIABLES
    run,            \* the function that drives evolve (fn: "evolve" when the
                    \* caller iterates the generator itself, else
                    \* "simulate_prices" or "simulate_and_distill"), its
                    \* arguments graph_distiller and price_range_distiller
                    \* (TRUE when not None), its lists prices and data, and
                    \* the exception that ended it (raised, "none" if none)
    shadow,         \* history: the memories state, eps and perc_price the
                    \* same agents would hold had they been constructed with
                    \* one more slot (memory_length + 1), fed the same error
                    \* samples and the same prices, and the K they quote from
    pop             \* populate_graph: its arguments (nodes of the graph in
                    \* iteration order, the generator passed as C, the
                    \* constant passed as A), where the call is (pc), what
                    \* is left in the generator (gen), the node_map and the
                    \* nodes of the graph it returns

VARIABLES
    rrmem           \* one RRMem used on its own: the list (memory), the
                    \* memory_length and the value it was constructed with
                    \* (length, initial), the first key written (first) and
                    \* history: the values written since, in order (written)

pr_vars == <<prices, balance_differences, balance, price_ref, inserted, outcome>>

trader_vars == <<state, eps, perc_price>>

param_vars == <<edges, memory_length, A, B, C, D>>

sim_vars == <<edges, memory_length, A, B, C, D, state, eps, perc_price,
              t, pc, node, step_price, used, run, shadow, pop, rrmem>>

vars == <<prices, balance_differences, balance, price_ref, inserted, outcome,
          edges, memory_length, A, B, C, D, state, eps, perc_price,
          t, pc, node, step_price, used, run, shadow, pop, rrmem>>

----------------------------------------------------------------------------
(* Python helpers *)

Abs(x) == IF x < 0 THEN -x ELSE x

\* seq[i] for a Python index i that is in range (negative counts from the end)
PyAt(seq, i) == seq[IF i >= 0 THEN i + 1 ELSE Len(seq) + i + 1]

\* seq[i] raises IndexError
PyOutOfRange(seq, i) == i >= Len(seq) \/ i < -Len(seq)

\* list.insert that appends whatever the index
PyInsert_Append(seq, i, x) == Append(seq, x)

\* list.insert(i, x) for 0 <= i <= len
PyInsert(seq, i, x) == SubSeq(seq, 1, i) \o <<x>> \o SubSeq(seq, i + 1, Len(seq))

\* bisect.bisect_left(a, x, lo, hi): the binary search of the library
RECURSIVE bisect_search(_, _, _, _)
bisect_search(a, x, lo, hi) ==
    IF lo < hi
    THEN LET mid == (lo + hi) \div 2
         IN  IF PyAt(a, mid) < x
             THEN bisect_search(a, x, mid + 1, hi)
             ELSE bisect_search(a, x, lo, mid)
    ELSE lo

bisect_left(a, x) == bisect_search(a, x, 0, Len(a))

\* (a + b) / 2.0
Mid(a, b) == (a + b) \div 2

----------------------------------------------------------------------------
(* PriceRanges *)

\* w with equal quotes counted as rational
Weight_EqualRational(p_s, p_b) == IF p_b <= p_s THEN -1 ELSE 1

\* w of insert: -1 if rational (buy below sell), +1 otherwise
Weight(p_s, p_b) == IF p_b < p_s THEN -1 ELSE 1

\* BalanceStep with the slip "+= w" in the branch below both quotes
BalanceStep_SameSign(ref, p_s, p_b) ==
    IF ref > p_b /\ ref > p_s THEN Weight(p_s, p_b)
    ELSE IF ref < p_b /\ ref < p_s THEN Weight(p_s, p_b)
    ELSE 0

\* the change of _balance made by insert, decided against the reference price
BalanceStep(ref, p_s, p_b) ==
    IF ref > p_b /\ ref > p_s THEN Weight(p_s, p_b)
    ELSE IF ref < p_b /\ ref < p_s THEN -Weight(p_s, p_b)
    ELSE 0

\* PriceRanges.__init__
pr_init ==
    /\ prices = <<>>
    /\ price_ref = 0
    /\ balance = 0
    /\ balance_differences = <<>>

\* PriceRanges.insert(p_s, p_b)
insert(p_s, p_b) ==
    LET w    == Weight(p_s, p_b)
        i_s  == bisect_left(prices, p_s)
        pr1  == PyInsert(prices, i_s, p_s)
        bd1  == PyInsert(balance_differences, i_s, w)
        i_b  == bisect_left(pr1, p_b)
    IN  /\ prices' = PyInsert(pr1, i_b, p_b)
        /\ balance_differences' = PyInsert(bd1, i_b, w)
        /\ balance' = balance + BalanceStep(price_ref, p_s, p_b)
        /\ price_ref' = price_ref
        /\ inserted' = Append(inserted, [s |-> p_s, b |-> p_b, ref |-> price_ref])
        /\ outcome' = [op |-> "insert", raised |-> "none", ret |-> 0, ref |-> price_ref]

\* clear_prices that leaves the balance as it was
clear_prices_KeepBalance ==
    /\ prices' = <<>>
    /\ balance_differences' = <<>>
    /\ balance' = balance
    /\ price_ref' = price_ref
    /\ inserted' = <<>>
    /\ outcome' = [op |-> "clear_prices", raised |-> "none", ret |-> 0,
                       ref |-> price_ref]

\* PriceRanges.clear_prices()
clear_prices ==
    /\ prices' = <<>>
    /\ balance_differences' = <<>>
    /\ balance' = 0
    /\ price_ref' = price_ref
    /\ inserted' = <<>>
    /\ outcome' = [op |-> "clear_prices", raised |-> "none", ret |-> 0,
                       ref |-> price_ref]

\* the while loop of _search_price: <<idx, b>> when it stops
RECURSIVE search_loop(_, _, _, _)
search_loop(diffs, idx, b, d) ==
    IF b # 0 /\ idx + d >= 0 /\ idx + d < Len(diffs)
    THEN search_loop(diffs, idx + d, b + d * PyAt(diffs, idx + d), d)
    ELSE <<idx, b>>

\* search_price without the step back before an upward search
search_price_NoBackUp(prs, diffs, bal, start_idx, d) ==
    LET r    == search_loop(diffs, start_idx, bal, d)
        idx  == r[1]
        b    == r[2]
    IN  IF b = 0 /\ idx + d >= 0 /\ idx + d < Len(prs)
        THEN Mid(PyAt(prs, idx), PyAt(prs, idx + d))
        ELSE Inf

\* PriceRanges._search_price(start_idx, d) on the tracker (prs, diffs, bal)
search_price(prs, diffs, bal, start_idx, d) ==
    LET idx0 == IF d = 1 THEN start_idx - 1 ELSE start_idx
        r    == search_loop(diffs, idx0, bal, d)
        idx  == r[1]
        b    == r[2]
    IN  IF b = 0 /\ idx + d >= 0 /\ idx + d < Len(prs)
        THEN Mid(PyAt(prs, idx), PyAt(prs, idx + d))
        ELSE Inf

\* the key of min() in compute_price: abs(p - self._price_ref)
RefDistance(p, ref) == IF p = Inf THEN Inf ELSE Abs(p - ref)

\* min(p_lo, p_hi, key = ...): the first of the smallest
PickClosest(p_lo, p_hi, ref) ==
    IF RefDistance(p_hi, ref) < RefDistance(p_lo, ref) THEN p_hi ELSE p_lo

\* NothingRegistered with the comparison "< 0"
NothingRegistered_Never(prs) == Len(prs) < 0

\* the guard of compute_price: no prices registered
NothingRegistered(prs) == Len(prs) <= 0

EmptyError == "Exception: No buy and sell prices registered."
NoSolutionError == "Exception: No solution found. All registered prices distinct?"
IndexError == "IndexError: list index out of range"

\* PriceRanges.compute_price() on the tracker (prs, diffs, bal, ref):
\* what it raises ("none" when it returns) and the price it returns
compute_price_result(prs, diffs, bal, ref) ==
    IF NothingRegistered(prs)
    THEN [raised |-> EmptyError, p |-> Inf]
    ELSE LET idx == bisect_left(prs, ref)
         IN  IF bal = 0
             THEN IF PyOutOfRange(prs, idx - 1) \/ PyOutOfRange(prs, idx)
                  THEN [raised |-> IndexError, p |-> Inf]
                  ELSE [raised |-> "none",
                        p |-> Mid(PyAt(prs, idx - 1), PyAt(prs, idx))]
             ELSE LET p_lo == search_price(prs, diffs, bal, idx, -1)
                      p_hi == search_price(prs, diffs, bal, idx, 1)
                      p    == PickClosest(p_lo, p_hi, ref)
                  IN  IF p = Inf
                      THEN [raised |-> NoSolutionError, p |-> Inf]
                      ELSE [raised |-> "none", p |-> p]

\* compute_price that stores the price found before it tests it for inf
compute_price_StoresFirst ==
    LET r == compute_price_result(prices, balance_differences, balance, price_ref)
    IN  /\ price_ref' = r.p
        /\ outcome' = [op |-> "compute_price", raised |-> r.raised,
                       ret |-> IF r.raised = "none" THEN r.p ELSE 0,
                       ref |-> price_ref]
        /\ UNCHANGED <<prices, balance_differences, balance, inserted>>

\* compute_price that returns the price without storing it
compute_price_KeepRef ==
    LET r == compute_price_result(prices, balance_differences, balance, price_ref)
    IN  /\ price_ref' = price_ref
        /\ outcome' = [op |-> "compute_price", raised |-> r.raised,
                       ret |-> IF r.raised = "none" THEN r.p ELSE 0,
                       ref |-> price_ref]
        /\ UNCHANGED <<prices, balance_differences, balance, inserted>>

\* PriceRanges.compute_price()
compute_price ==
    LET r == compute_price_result(prices, balance_differences, balance, price_ref)
    IN  /\ price_ref' = IF r.raised = "none" THEN r.p ELSE price_ref
        /\ outcome' = [op |-> "compute_price", raised |-> r.raised,
                       ret |-> IF r.raised = "none" THEN r.p ELSE 0,
                       ref |-> price_ref]
        /\ UNCHANGED <<prices, balance_differences, balance, inserted>>

----------------------------------------------------------------------------
(* Trader *)

\* the agents, in the order graph.nodes iterates them
Agents == 1..2

\* Trader._b and Trader._s, the buy and sell cutoff thresholds
buy_cutoff == -1
sell_cutoff == 1

\* x / y of floats, for the exact quotients the model meets
FDiv(x, y) == x \div y

\* RRMem.__getitem__: the item at key modulo the capacity
rr_get(mem, key) == mem[(key % Len(mem)) + 1]

\* the item stored one slot further
rr_set_NextSlot(mem, key, val) == [mem EXCEPT ![((key + 1) % Len(mem)) + 1] = val]

\* RRMem.__setitem__
rr_set(mem, key, val) == [mem EXCEPT ![(key % Len(mem)) + 1] = val]

\* a memory of memory_length slots, without the spare one
rr_new_NoSpare(v, mlen) == [k \in 1..mlen |-> v]

\* RRMem((v,) * (memory_length + 1))
rr_new(v, mlen) == [k \in 1..(mlen + 1) |-> v]

\* graph.neighbors(n) of a DiGraph: the successors of n
neighbors(n) == {m \in Agents : <<n, m>> \in edges}

RECURSIVE SumOver(_, _)
SumOver(S, f) ==
    IF S = {} THEN 0
    ELSE LET m == CHOOSE x \in S : TRUE IN f[m] + SumOver(S \ {m}, f)

\* influence summing the states of the running step instead of the previous
influence_RunningStep(nbrs, time, st) ==
    SumOver(nbrs, [m \in nbrs |-> rr_get(st[m], time + 1)])

\* Trader._influence(neighbours, time) over the histories st
influence(nbrs, time, st) == SumOver(nbrs, [m \in nbrs |-> rr_get(st[m], time)])

\* K from the perceived price of the given time instead of the one before
drift_JustWritten(n, time, e, pp, infl) ==
    (A[n] + B[n]) * rr_get(e, time)
        - B[n] * rr_get(pp, time)
        + C[n] * infl * Unit
        + D[n] * Unit

\* K of compute_price_points and of update_state, for agent n at the given
\* time, from its error history e, its perceived prices pp and the influence
drift(n, time, e, pp, infl) ==
    (A[n] + B[n]) * rr_get(e, time)
        - B[n] * rr_get(pp, time - 1)
        + C[n] * infl * Unit
        + D[n] * Unit

\* Trader.compute_price_points: <<p_s, p_b>> from K
price_points(n, K) ==
    << FDiv(Unit * sell_cutoff - K, A[n] + B[n]),
       FDiv(Unit * buy_cutoff - K, A[n] + B[n]) >>

\* L_t of update_state
level(n, price_t, K) == (A[n] + B[n]) * price_t + K

\* a level on the buy cutoff written as a buy instead of a hold
next_state_StrictHold(L_t) ==
    IF L_t <= Unit * buy_cutoff THEN -1
    ELSE IF L_t <= Unit * sell_cutoff THEN 0
    ELSE 1

\* the state update_state writes for L_t
next_state(L_t) ==
    IF L_t < Unit * buy_cutoff THEN -1
    ELSE IF L_t <= Unit * sell_cutoff THEN 0
    ELSE 1

\* the values the samplers of the parameters draw from
BValues == {0, -2}
DValues == {-2, 0, 2}
SValues == {-1, 0, 1}
EpsSamples == {-Unit, Unit}
MemoryLengths == {1, 2}

\* Trader.__init__ for every node (populate_graph), on any DiGraph without
\* self loops
trader_init ==
    /\ edges \in SUBSET {e \in Agents \X Agents : e[1] # e[2]}
    /\ memory_length \in MemoryLengths
    /\ A = [n \in Agents |-> 1]
    /\ B \in [Agents -> BValues]
    /\ C = [n \in Agents |-> 5]
    /\ D \in [Agents -> DValues]
    /\ \E S \in [Agents -> SValues] :
           state = [n \in Agents |-> rr_new(S[n], memory_length)]
    /\ \E e \in [Agents -> EpsSamples] :
           eps = [n \in Agents |-> rr_new(e[n], memory_length)]
    /\ perc_price = [n \in Agents |-> rr_new(0, memory_length)]

----------------------------------------------------------------------------
(* simulation.time_step, simulation.evolve and the functions that consume   *)
(* it: simulation.simulate_prices and simulation.simulate_and_distill       *)

NoHistory == [prior |-> <<>>, quoted |-> <<>>, updated |-> <<>>, written |-> <<>>]

\* the shortest memory an agent may be given
MinMemoryLength == 1

\* the division by zero of compute_price_points on Python numbers
ZeroDivisionError == "ZeroDivisionError: division by zero"

\* the agents constructed again with the same samples and MinMemoryLength
shadow_init ==
    shadow = [state      |-> [n \in Agents |-> rr_new(rr_get(state[n], 0), MinMemoryLength)],
              eps        |-> [n \in Agents |-> rr_new(rr_get(eps[n], 0), MinMemoryLength)],
              perc_price |-> [n \in Agents |-> rr_new(0, MinMemoryLength)],
              quoted     |-> <<>>]

\* the result of a distiller: the distiller called and the arguments it got,
\* the objects named by the parameters of simulate_and_distill
Called(f, time, x) == [f |-> f, t |-> time, x |-> x]

\* it_data of simulate_and_distill for the step time, as the tuple appended
it_data(r, time) ==
    (IF r.graph_distiller
     THEN <<Called("graph_distiller", time, "graph")>> ELSE <<>>)
    \o (IF r.price_range_distiller
        THEN <<Called("price_range_distiller", time, "graph")>> ELSE <<>>)

\* prepend in place of append
collect_Prepend(lst, x) == <<x>> \o lst

\* list.append(x)
collect(lst, x) == Append(lst, x)

\* the body of the loop over evolve, run with the yielded (time, p):
\* prices.append(p) in simulate_prices, data.append(tuple(it_data)) in
\* simulate_and_distill, nothing of the program's when the caller iterates
consume(r, time, p) ==
    IF r.fn = "simulate_prices"
    THEN [r EXCEPT !.prices = collect(@, p)]
    ELSE IF r.fn = "simulate_and_distill"
    THEN [r EXCEPT !.data = collect(@, it_data(r, time))]
    ELSE r

\* evolve asks for the next element of time_range and enters time_step:
\* price_range.clear_prices()
StepBegin ==
    /\ pc = "ready"
    /\ t < MaxT
    /\ clear_prices
    /\ pc' = "quote"
    /\ node' = 1
    /\ used' = [prior |-> IF used.written = <<>>
                           THEN [m \in Agents |-> rr_get(state[m], t - 1)]
                           ELSE used.written,
                quoted |-> <<>>, updated |-> <<>>, written |-> <<>>]
    /\ shadow' = [shadow EXCEPT !.quoted = <<>>]
    /\ UNCHANGED <<param_vars, trader_vars, t, step_price, run, pop, rrmem>>

\* one pass of the first loop of time_step, for the node n = node:
\* update_epsilon(t), compute_price_points(t, neighbors), insert(p_s, p_b);
\* the quotient by A + B = 0 raises and leaves time_step and evolve
Quote ==
    /\ pc = "quote"
    /\ \E sample \in EpsSamples :
         LET n    == node
             e1   == rr_set(eps[n], t, sample)
             infl == influence(neighbors(n), t - 1, state)
             K    == drift(n, t, e1, perc_price[n], infl)
             pts  == price_points(n, K)
             se1  == rr_set(shadow.eps[n], t, sample)
             sK   == drift(n, t, se1, shadow.perc_price[n],
                           influence(neighbors(n), t - 1, shadow.state))
         IN  /\ eps' = [eps EXCEPT ![n] = e1]
             /\ IF A[n] + B[n] = 0
                THEN /\ run' = [run EXCEPT !.raised = ZeroDivisionError]
                     /\ shadow' = [shadow EXCEPT !.eps[n] = se1]
                     /\ pc' = "raised"
                     /\ UNCHANGED <<pr_vars, used, node>>
                ELSE /\ insert(pts[1], pts[2])
                     /\ used' = [used EXCEPT !.quoted = Append(@, [infl |-> infl, K |-> K])]
                     /\ shadow' = [shadow EXCEPT !.eps[n] = se1,
                                                 !.quoted = Append(@, sK)]
                     /\ node' = node + 1
                     /\ pc' = IF node = Cardinality(Agents) THEN "solve" ELSE "quote"
                     /\ run' = run
    /\ UNCHANGED <<param_vars, state, perc_price, t, step_price, pop, rrmem>>

\* a failed compute_price followed by the update pass all the same
Solve_ContinueOnError ==
    /\ pc = "solve"
    /\ compute_price
    /\ pc' = "update"
    /\ step_price' = IF outcome'.raised = "none" THEN outcome'.ret ELSE step_price
    /\ run' = [run EXCEPT !.raised = outcome'.raised]
    /\ node' = 1
    /\ UNCHANGED <<param_vars, trader_vars, t, used, shadow, pop, rrmem>>

\* p = price_range.compute_price(); an exception leaves time_step and evolve
Solve ==
    /\ pc = "solve"
    /\ compute_price
    /\ pc' = IF outcome'.raised = "none" THEN "update" ELSE "raised"
    /\ step_price' = IF outcome'.raised = "none" THEN outcome'.ret ELSE step_price
    /\ run' = [run EXCEPT !.raised = outcome'.raised]
    /\ node' = 1
    /\ UNCHANGED <<param_vars, trader_vars, t, used, shadow, pop, rrmem>>

\* one pass of the second loop of time_step, for the node n = node:
\* update_state(t, p, neighbors); after the last node time_step returns p,
\* evolve yields (t, p) and the body of the loop that consumes evolve runs
Update ==
    /\ pc = "update"
    /\ LET n    == node
           pp1  == rr_set(perc_price[n], t, step_price + rr_get(eps[n], t))
           infl == influence(neighbors(n), t - 1, state)
           K    == drift(n, t, eps[n], pp1, infl)
           L_t  == level(n, step_price, K)
           spp1 == rr_set(shadow.perc_price[n], t,
                          step_price + rr_get(shadow.eps[n], t))
           sK   == drift(n, t, shadow.eps[n], spp1,
                         influence(neighbors(n), t - 1, shadow.state))
           sL_t == level(n, step_price, sK)
       IN  /\ perc_price' = [perc_price EXCEPT ![n] = pp1]
           /\ state' = [state EXCEPT ![n] = rr_set(@, t, next_state(L_t))]
           /\ used' = [used EXCEPT !.updated = Append(@, [infl |-> infl, K |-> K]),
                                    !.written = Append(@, next_state(L_t))]
           /\ shadow' = [shadow EXCEPT !.perc_price[n] = spp1,
                                       !.state[n] = rr_set(@, t, next_state(sL_t))]
    /\ node' = node + 1
    /\ pc' = IF node = Cardinality(Agents) THEN "ready" ELSE "update"
    /\ t' = IF node = Cardinality(Agents) THEN t + 1 ELSE t
    /\ run' = IF node = Cardinality(Agents) THEN consume(run, t, step_price) ELSE run
    /\ UNCHANGED <<param_vars, eps, step_price, pr_vars, pop, rrmem>>

\* no populate_graph call is modelled
NotCalled == [pc |-> "none"]

\* no RRMem is used on its own
NoMemory == [memory |-> <<>>]

\* a caller that iterates evolve itself
Iterating ==
    [fn |-> "evolve", graph_distiller |-> FALSE, price_range_distiller |-> FALSE,
     prices |-> <<>>, data |-> <<>>, raised |-> "none"]

\* a populated network and a fresh tracker handed to evolve
Init ==
    /\ trader_init
    /\ shadow_init
    /\ pr_init
    /\ inserted = <<>>
    /\ outcome = [op |-> "init", raised |-> "none", ret |-> 0, ref |-> 0]
    /\ t = 0 /\ pc = "ready" /\ node = 0 /\ step_price = 0
    /\ used = NoHistory
    /\ run = Iterating
    /\ pop = NotCalled
    /\ rrmem = NoMemory

Next == StepBegin \/ Quote \/ Solve \/ Update

Spec == Init /\ [][Next]_vars

----------------------------------------------------------------------------
(* simulate_prices and simulate_and_distill called on networks whose agents *)
(* were constructed with any parameters, A + B = 0 included                 *)

\* B and D of the agents of these networks
RunBValues == {0, -1}
RunDValues == {0, 2}

\* the calls: simulate_prices(graph, range(MaxT)) and simulate_and_distill(
\* graph, range(MaxT), price_range, graph_distiller, price_range_distiller),
\* each distiller a function or None
Calls ==
    { [Iterating EXCEPT !.fn = "simulate_prices"] }
    \cup { [Iterating EXCEPT !.fn = "simulate_and_distill",
                             !.graph_distiller = g,
                             !.price_range_distiller = p] :
             g \in BOOLEAN, p \in BOOLEAN }

InitRun ==
    /\ edges \in SUBSET {e \in Agents \X Agents : e[1] # e[2]}
    /\ memory_length = MinMemoryLength
    /\ A = [n \in Agents |-> 1]
    /\ B \in [Agents -> RunBValues]
    /\ C = [n \in Agents |-> 5]
    /\ D \in [Agents -> RunDValues]
    /\ \E S \in [Agents -> SValues] :
           state = [n \in Agents |-> rr_new(S[n], memory_length)]
    /\ \E e \in [Agents -> EpsSamples] :
           eps = [n \in Agents |-> rr_new(e[n], memory_length)]
    /\ perc_price = [n \in Agents |-> rr_new(0, memory_length)]
    /\ shadow_init
    /\ pr_init
    /\ inserted = <<>>
    /\ outcome = [op |-> "init", raised |-> "none", ret |-> 0, ref |-> 0]
    /\ t = 0 /\ pc = "ready" /\ node = 0 /\ step_price = 0
    /\ used = NoHistory
    /\ run \in Calls
    /\ pop = NotCalled
    /\ rrmem = NoMemory

SpecRun == InitRun /\ [][Next]_vars

----------------------------------------------------------------------------
(* The tracker driven through its interface by an arbitrary caller *)

\* a quote pair in whole prices
Pair(p_s, p_b) == [s |-> Unit * p_s, b |-> Unit * p_b]

\* the pairs a caller inserts: rational and inverted, equal quotes, a quote
\* equal to the initial reference price, quotes shared between pairs
QuotePairs ==
    { Pair(2, 6), Pair(3, 1), Pair(5, 4), Pair(3, 4), Pair(1, 0),
      Pair(2, 2), Pair(4, 2), Pair(1, -1), Pair(-4, -2) }

\* a tracker alone: no network, no agents, no step running
InitPR ==
    /\ pr_init
    /\ inserted = <<>>
    /\ outcome = [op |-> "init", raised |-> "none", ret |-> 0, ref |-> 0]
    /\ edges = {} /\ memory_length = 1
    /\ A = <<>> /\ B = <<>> /\ C = <<>> /\ D = <<>>
    /\ state = <<>> /\ eps = <<>> /\ perc_price = <<>>
    /\ t = 0 /\ pc = "caller" /\ node = 0 /\ step_price = 0 /\ used = <<>>
    /\ run = <<>> /\ shadow = <<>> /\ pop = NotCalled
    /\ rrmem = NoMemory

Insert ==
    /\ pc = "caller"
    /\ Len(inserted) < MaxPairs
    /\ \E q \in QuotePairs : insert(q.s, q.b)
    /\ UNCHANGED sim_vars

Clear ==
    /\ pc = "caller"
    /\ clear_prices
    /\ UNCHANGED sim_vars

ComputePrice ==
    /\ pc = "caller"
    /\ compute_price
    /\ UNCHANGED sim_vars

NextPR == Insert \/ Clear \/ ComputePrice

SpecPR == InitPR /\ [][NextPR]_vars

\* the fixed point is exact: quotes are whole numbers, so midpoints lose
\* nothing, and the quotients of compute_price_points have no remainder
TypeOK ==
    /\ Len(prices) = Len(balance_differences)
    /\ \A i \in 1..Len(prices) : prices[i] % Unit = 0
    /\ price_ref \in Int /\ price_ref # Inf
    /\ \A n \in DOMAIN A : A[n] + B[n] \in {1, -1}
    /\ \A n \in DOMAIN eps : \A k \in DOMAIN eps[n] : eps[n][k] % Unit = 0

----------------------------------------------------------------------------
(* The tracker handed quotes of any float value, the infinities included *)

\* pairs with a quote of math.inf or -math.inf
InfiniteQuotePairs ==
    { [s |-> Inf, b |-> Unit * 1], [s |-> Unit * 2, b |-> -Inf],
      [s |-> -Inf, b |-> Inf], [s |-> Inf, b |-> Inf] }

\* the pairs this caller inserts: infinite and finite, rational and inverted,
\* equal quotes, quotes shared between pairs
AnyQuotePairs ==
    InfiniteQuotePairs \cup {Pair(3, 1), Pair(2, 6), Pair(-4, -2), Pair(2, 2)}

\* an infinite price is registered
InfiniteRegistered == \E i \in 1..Len(prices) : Abs(prices[i]) = Inf

InsertAny ==
    /\ pc = "caller"
    /\ Len(inserted) < MaxPairs
    /\ \E q \in AnyQuotePairs : insert(q.s, q.b)
    /\ UNCHANGED sim_vars

\* this caller asks for a price only while every registered price is finite
ComputePriceOfFinite ==
    /\ pc = "caller"
    /\ ~InfiniteRegistered
    /\ compute_price
    /\ UNCHANGED sim_vars

NextQuotes == InsertAny \/ Clear \/ ComputePriceOfFinite

SpecQuotes == InitPR /\ [][NextQuotes]_vars

----------------------------------------------------------------------------
(* utilities.populate_graph(graph, C = generator, A = constant) *)

\* Largest number of nodes of the graph handed to populate_graph; the
\* generator holds up to one value more.
MaxNodes == 3

\* the values a generator yields
GenValues == {7, 8}

\* the sequences over S of length at most n
RECURSIVE SeqsUpTo(_, _)
SeqsUpTo(S, n) ==
    IF n = 0 THEN {<<>>}
    ELSE LET shorter == SeqsUpTo(S, n - 1)
         IN  shorter \cup {Append(q, x) : q \in {r \in shorter : Len(r) = n - 1}, x \in S}

\* a StopIteration inside the generator expression
RuntimeError == "RuntimeError: generator raised StopIteration"

\* v.__next__() without advancing the generator
draw_Peek(gen) == [value |-> Head(gen), gen |-> gen]

\* v.__next__() on a generator that has a value left
draw(gen) == [value |-> Head(gen), gen |-> Tail(gen)]

\* _Trader(name = nk, A = const, C = value): the attributes that tell it apart
new_trader(nk, const, value) == [name |-> nk, A |-> const, C |-> value]

\* dict(zip(nodes, (Trader(...) for nk in nodes))) from the k-th node on: zip
\* asks the node iterator first and stops when it is exhausted; else the
\* generator expression draws the next value and constructs the Trader
RECURSIVE make_traders(_, _, _, _)
make_traders(nodes, const, gen, k) ==
    IF k > Len(nodes)
    THEN [raised |-> "none", traders |-> <<>>, gen |-> gen]
    ELSE IF gen = <<>>
    THEN [raised |-> RuntimeError, traders |-> <<>>, gen |-> gen]
    ELSE LET d    == draw(gen)
             rest == make_traders(nodes, const, d.gen, k + 1)
         IN  [rest EXCEPT !.traders =
                 IF rest.raised = "none"
                 THEN <<new_trader(nodes[k], const, d.value)>> \o @
                 ELSE <<>>]

\* nx.relabel_nodes(w_graph, node_map, copy = False): the nodes afterwards
relabel_nodes(graph_nodes, mapping) == {mapping[k] : k \in graph_nodes}

\* populate_graph(graph, C = gen, A = const) on a graph whose nodes iterate
\* in the order nodes: what it raised, the node_map and the nodes of the
\* graph it returns, and what is left in the generator
populate_graph(nodes, const, gen) ==
    LET built    == make_traders(nodes, const, gen, 1)
        keys     == {nodes[i] : i \in 1..Len(nodes)}
        node_map == [nk \in keys |->
                        built.traders[CHOOSE i \in 1..Len(nodes) : nodes[i] = nk]]
    IN  IF built.raised # "none"
        THEN [pc |-> "raised", raised |-> built.raised, gen |-> built.gen,
              node_map |-> <<>>, graph_nodes |-> keys]
        ELSE [pc |-> "returned", raised |-> "none", gen |-> built.gen,
              node_map |-> node_map,
              graph_nodes |-> relabel_nodes(keys, node_map)]

\* the call populate_graph(graph, C = generator, A = A) about to be made on
\* a graph of nodes 0 .. n - 1 (nx.path_graph), no tracker and no step in use
InitPop ==
    /\ pr_init
    /\ inserted = <<>>
    /\ outcome = [op |-> "init", raised |-> "none", ret |-> 0, ref |-> 0]
    /\ edges = {} /\ memory_length = 1
    /\ A = <<>> /\ B = <<>> /\ C = <<>> /\ D = <<>>
    /\ state = <<>> /\ eps = <<>> /\ perc_price = <<>>
    /\ t = 0 /\ pc = "populate" /\ node = 0 /\ step_price = 0 /\ used = <<>>
    /\ run = <<>> /\ shadow = <<>>
    /\ rrmem = NoMemory
    /\ \E n \in 0..MaxNodes, g \in SeqsUpTo(GenValues, MaxNodes + 1) :
           pop = [pc |-> "call", nodes |-> [i \in 1..n |-> i - 1],
                  generator |-> g, A |-> 1,
                  raised |-> "none", gen |-> g, node_map |-> <<>>,
                  graph_nodes |-> {i - 1 : i \in 1..n}]

Populate ==
    /\ pop.pc = "call"
    /\ LET r == populate_graph(pop.nodes, pop.A, pop.gen)
       IN  pop' = [pop EXCEPT !.pc = r.pc, !.raised = r.raised, !.gen = r.gen,
                              !.node_map = r.node_map,
                              !.graph_nodes = r.graph_nodes]
    /\ UNCHANGED <<pr_vars, edges, memory_length, A, B, C, D, state, eps,
                   perc_price, t, pc, node, step_price, used, run, shadow,
                   rrmem>>

NextPop == Populate

SpecPop == InitPop /\ [][NextPop]_vars

----------------------------------------------------------------------------
(* Trader.RRMem used as time_step uses every history: constructed with     *)
(* memory_length + 1 copies of one value, then written at increasing keys   *)

\* the largest memory_length, and the number of keys written
MaxMemoryLength == 3
MaxWrites == 5

\* the first key of a time range, range(N) or range(1, N + 1)
FirstKeys == {0, 1}

\* the values held by a history
MemValues == {-1, 0, 1}

\* RRMem((v,) * (memory_length + 1)), no tracker, no network, no step in use
InitMem ==
    /\ pr_init
    /\ inserted = <<>>
    /\ outcome = [op |-> "init", raised |-> "none", ret |-> 0, ref |-> 0]
    /\ edges = {} /\ memory_length = 1
    /\ A = <<>> /\ B = <<>> /\ C = <<>> /\ D = <<>>
    /\ state = <<>> /\ eps = <<>> /\ perc_price = <<>>
    /\ t = 0 /\ pc = "memory" /\ node = 0 /\ step_price = 0 /\ used = <<>>
    /\ run = <<>> /\ shadow = <<>> /\ pop = NotCalled
    /\ \E mlen \in 1..MaxMemoryLength, v \in MemValues, t0 \in FirstKeys :
           rrmem = [memory |-> rr_new(v, mlen), length |-> mlen, initial |-> v,
                    first |-> t0, written |-> <<>>]

\* memory[key] = val for the next key of the time range
SetItem ==
    /\ Len(rrmem.written) < MaxWrites
    /\ \E val \in MemValues :
           rrmem' = [rrmem EXCEPT
                        !.memory = rr_set(@, rrmem.first + Len(rrmem.written), val),
                        !.written = Append(@, val)]
    /\ UNCHANGED <<pr_vars, edges, memory_length, A, B, C, D, state, eps,
                   perc_price, t, pc, node, step_price, used, run, shadow, pop>>

NextMem == SetItem

SpecMem == InitMem /\ [][NextMem]_vars

----------------------------------------------------------------------------
(* Vocabulary of the properties of the tracker *)

\* the last call was a compute_price that returned a price
Returned == outcome.op = "compute_price" /\ outcome.raised = "none"

\* the last call was a compute_price that raised
Failed == outcome.op = "compute_price" /\ outcome.raised # "none"

RECURSIVE SumSeq(_)
SumSeq(seq) == IF seq = <<>> THEN 0 ELSE Head(seq) + SumSeq(Tail(seq))

\* the number of inserted pairs that satisfy Test
CountPairs(Test(_)) == Cardinality({i \in 1..Len(inserted) : Test(inserted[i])})

\* +1 for a pair with both quotes strictly below p, -1 for one with both
\* strictly above, 0 otherwise
PairSide(q, p) ==
    IF q.s < p /\ q.b < p THEN 1
    ELSE IF q.s > p /\ q.b > p THEN -1
    ELSE 0

\* w of a pair as the specification words it
PairWeight(q) == IF q.b < q.s THEN -1 ELSE 1

\* the net imbalance of the inserted pairs at price p
Imbalance(p) ==
    SumSeq([i \in 1..Len(inserted) |-> PairWeight(inserted[i]) * PairSide(inserted[i], p)])

\* every pair was inserted at the reference price r
InsertedAt(r) == \A i \in 1..Len(inserted) : inserted[i].ref = r

\* the price r equals one of the inserted quotes
IsQuote(r) == \E i \in 1..Len(inserted) : inserted[i].s = r \/ inserted[i].b = r

AllRational == \A i \in 1..Len(inserted) : inserted[i].b < inserted[i].s

----------------------------------------------------------------------------
(* Properties of the tracker, checked under SpecPR *)

BuysBelow(p) == CountPairs(LAMBDA q : q.b < p)
SellsAbove(p) == CountPairs(LAMBDA q : q.s > p)

C2_Case ==
    /\ Returned
    /\ AllRational
    /\ InsertedAt(outcome.ref)
    /\ ~IsQuote(outcome.ref)
    /\ ~IsQuote(outcome.ret)

C3_ZeroImbalance == Returned => Imbalance(outcome.ret) = 0

\* the midpoints of the zero-balance intervals: adjacent distinct registered
\* prices with no net imbalance between them
ZeroMidpoints ==
    { Mid(prices[i], prices[i + 1]) :
        i \in { j \in 1..(Len(prices) - 1) :
                  /\ prices[j] < prices[j + 1]
                  /\ Imbalance(Mid(prices[j], prices[j + 1])) = 0 } }

\* C5: when the registered pairs give several distinct zero-balance
\* intervals, compute_price returns the zero-balance midpoint closest to the
\* reference price held before the call.
C5_NearestZeroMidpoint ==
    (Returned /\ Cardinality(ZeroMidpoints) >= 2) =>
        /\ outcome.ret \in ZeroMidpoints
        /\ \A m \in ZeroMidpoints :
               Abs(outcome.ret - outcome.ref) <= Abs(m - outcome.ref)

\* C6: a compute_price that follows a compute_price that returned p, with no
\* insert or clear between them, returns p as well.
C6_Idempotent ==
    [][(Returned /\ outcome'.op = "compute_price") =>
           (outcome'.raised = "none" /\ outcome'.ret = outcome.ret)]_vars

\* the sum of balanceDeltas[i] over the registered prices below r
SumBelow(r) ==
    SumSeq([i \in 1..Len(prices) |->
               IF prices[i] < r THEN balance_differences[i] ELSE 0])

C8_PriceOrNoSolution ==
    (outcome.op = "compute_price" /\ Len(inserted) >= 1) =>
        \/ outcome.raised = "none" /\ outcome.ret # Inf
        \/ outcome.raised = NoSolutionError

\* C9: compute_price fails with the no-solution error only if all registered
\* quotes are identical; with two distinct registered prices it returns a
\* price.
C9_NoSolutionOnlyIfIdentical ==
    outcome.op = "compute_price" =>
        /\ outcome.raised = NoSolutionError =>
               \A i, j \in 1..Len(prices) : prices[i] = prices[j]
        /\ (\E i, j \in 1..Len(prices) : prices[i] # prices[j]) =>
               outcome.raised = "none"

C13_SinglePairMidpoint ==
    (outcome.op = "compute_price" /\ Len(inserted) = 1) =>
        /\ outcome.raised = "none"
        /\ outcome.ret = Mid(inserted[1].s, inserted[1].b)

\* PriceRanges.insert(q.s, q.b) as a function of the tracker tr =
\* [prices, diffs, balance] holding the reference price ref
insert_into(tr, q, ref) ==
    LET w    == Weight(q.s, q.b)
        i_s  == bisect_left(tr.prices, q.s)
        pr1  == PyInsert(tr.prices, i_s, q.s)
        bd1  == PyInsert(tr.diffs, i_s, w)
        i_b  == bisect_left(pr1, q.b)
    IN  [prices  |-> PyInsert(pr1, i_b, q.b),
         diffs   |-> PyInsert(bd1, i_b, w),
         balance |-> tr.balance + BalanceStep(ref, q.s, q.b)]

\* a fresh or cleared tracker after the inserts of pairs, in their order
RECURSIVE tracker_after(_, _)
tracker_after(pairs, ref) ==
    IF pairs = <<>>
    THEN [prices |-> <<>>, diffs |-> <<>>, balance |-> 0]
    ELSE insert_into(tracker_after(SubSeq(pairs, 1, Len(pairs) - 1), ref),
                     pairs[Len(pairs)], ref)

\* the orders in which n pairs can be inserted
Orders(n) == {f \in [1..n -> 1..n] : \A i, j \in 1..n : f[i] = f[j] => i = j}

\* C24: for a fixed reference price and a fixed multiset of pairs inserted
\* after a clear, compute_price returns the same price, or fails the same
\* way, whatever the order of the inserts, equal quotes of different pairs
\* included.
C24_InsertOrderIrrelevant ==
    (outcome.op = "compute_price" /\ InsertedAt(outcome.ref)) =>
        \A f \in Orders(Len(inserted)) :
            LET tr == tracker_after([i \in 1..Len(inserted) |-> inserted[f[i]]],
                                    outcome.ref)
                r  == compute_price_result(tr.prices, tr.diffs, tr.balance,
                                           outcome.ref)
            IN  /\ r.raised = outcome.raised
                /\ r.raised = "none" => r.p = outcome.ret

\* C21: after compute_price returns p, referencePrice is p and the stored
\* balance is the imbalance at the new referencePrice, that is 0.
C21_BalanceFollowsReference ==
    Returned => (price_ref = outcome.ret /\ balance = 0)

\* idx of compute_price kept off both ends of the sequence, as the 1-based
\* position of the lower of the two adjacent prices
GuardedIdx(idx) ==
    IF idx < 1 THEN 1
    ELSE IF idx > Len(prices) - 1 THEN Len(prices) - 1
    ELSE idx

\* C22: a compute_price entered with balance 0 and prices registered does
\* not read past the end of the sequence and returns the midpoint of the
\* two adjacent registered prices around the reference price, idx kept off
\* both ends (no pairing of the largest price with the smallest).
C22_ZeroBalanceGuarded ==
    (outcome.op = "compute_price" /\ balance = 0 /\ Len(prices) >= 2) =>
        /\ outcome.raised # IndexError
        /\ outcome.raised = "none" =>
               LET lo == GuardedIdx(bisect_left(prices, outcome.ref))
               IN  outcome.ret = Mid(prices[lo], prices[lo + 1])

----------------------------------------------------------------------------
(* Properties of the tracker handed any quotes, checked under SpecQuotes *)

\* C11: insert with a quote of +infinity or -infinity is rejected before the
\* tracker is touched, so no infinite quote is ever registered: none among
\* the prices and none among the pairs inserted.
C11_InfiniteQuoteRejected ==
    /\ \A i \in 1..Len(prices) : Abs(prices[i]) # Inf
    /\ \A i \in 1..Len(inserted) :
           Abs(inserted[i].s) # Inf /\ Abs(inserted[i].b) # Inf

\* a freshly constructed tracker holding the reference price q.ref after
\* insert(q.s, q.b)
FreshWith(q) ==
    [prices  |-> IF q.s <= q.b THEN <<q.s, q.b>> ELSE <<q.b, q.s>>,
     diffs   |-> <<PairWeight(q), PairWeight(q)>>,
     balance |-> PairWeight(q) * PairSide(q, q.ref)]

\* C12: clear_prices empties prices and balanceDeltas and sets balance to 0
\* and leaves referencePrice alone, so the price of the last successful
\* compute_price is the anchor of what follows; one pair inserted after a
\* clear leaves the tracker, and the compute_price that follows answers,
\* exactly as a freshly constructed tracker holding that reference price.
C12_ClearKeepsReference ==
    /\ [][outcome'.op = "clear_prices" =>
              /\ prices' = <<>>
              /\ balance_differences' = <<>>
              /\ balance' = 0
              /\ price_ref' = price_ref
              /\ (Returned => price_ref' = outcome.ret)]_vars
    /\ [](Len(inserted) = 1 =>
              LET fresh == FreshWith(inserted[1])
              IN  /\ prices = fresh.prices
                  /\ balance_differences = fresh.diffs
                  /\ balance = fresh.balance
                  /\ outcome.op = "compute_price" =>
                         LET r == compute_price_result(fresh.prices, fresh.diffs,
                                                       fresh.balance, outcome.ref)
                         IN  /\ outcome.raised = r.raised
                             /\ Returned => outcome.ret = r.p)

\* a pair solved on a tracker that was cleared after it had solved a price
\* away from the initial one, the pair lying wholly to one side of it
C12_Witness ==
    /\ Returned
    /\ Len(inserted) = 1
    /\ inserted[1].ref # 0
    /\ outcome.ref = inserted[1].ref
    /\ balance # 0

\* the positions of prices that hold price p with weight w, and the quotes
\* of the inserted pairs that are p from a pair of weight w
Positions(p, w) ==
    Cardinality({i \in 1..Len(prices) : prices[i] = p /\ balance_differences[i] = w})

Contributions(p, w) ==
    CountPairs(LAMBDA q : q.s = p /\ PairWeight(q) = w)
        + CountPairs(LAMBDA q : q.b = p /\ PairWeight(q) = w)

\* C14: after any sequence of insert and clear_prices calls prices is sorted
\* ascending, prices and balanceDeltas have the same length, every insert
\* lengthens both by exactly 2, and every position of prices carries in
\* balanceDeltas the weight of the pair its price came from.
C14_SortedAligned ==
    /\ [](/\ \A i \in 1..(Len(prices) - 1) : prices[i] <= prices[i + 1]
          /\ Len(prices) = Len(balance_differences)
          /\ Len(prices) = 2 * Len(inserted)
          /\ \A p \in {prices[i] : i \in 1..Len(prices)}, w \in {-1, 1} :
                 Positions(p, w) = Contributions(p, w))
    /\ [][outcome'.op = "insert" =>
              /\ Len(prices') = Len(prices) + 2
              /\ Len(balance_differences') = Len(balance_differences) + 2]_vars

\* rational and inverted pairs registered together, a price shared between
\* pairs of different weight, the last quote inserted below earlier ones
C14_Witness ==
    /\ outcome.op = "insert"
    /\ Len(inserted) = 3
    /\ \E i, j \in 1..Len(prices) :
           prices[i] = prices[j] /\ balance_differences[i] # balance_differences[j]
    /\ inserted[3].s < inserted[1].s

\* C23: on a fresh or just-cleared tracker, after every insert the stored
\* balance is the sum over the pairs inserted so far of +w for a pair with
\* both quotes strictly below referencePrice, -w for one with both strictly
\* above, 0 otherwise (a quote equal to referencePrice included), with
\* w = -1 if buy < sell and +1 otherwise (buy = sell included).
C23_BalancePerPair ==
    InsertedAt(price_ref) => balance = Imbalance(price_ref)

\* inserts at a reference price moved off its initial value: a pair with
\* equal quotes, a quote equal to the reference price, a balance off zero
C23_Witness ==
    /\ outcome.op = "insert"
    /\ Len(inserted) >= 2
    /\ InsertedAt(price_ref)
    /\ price_ref # 0
    /\ IsQuote(price_ref)
    /\ \E i \in 1..Len(inserted) :
           inserted[i].s = inserted[i].b /\ PairSide(inserted[i], price_ref) # 0
    /\ balance # 0

\* C29: a compute_price that fails, for want of prices or of a zero-balance
\* crossing or in any other way, leaves prices, balanceDeltas, balance and
\* referencePrice as they were before the call.
C29_FailureLeavesTracker ==
    [][(outcome'.op = "compute_price" /\ outcome'.raised # "none") =>
           UNCHANGED <<prices, balance_differences, balance, price_ref>>]_vars

\* a failed search for a crossing on a tracker whose reference price had
\* been moved by an earlier compute_price
C29_Witness ==
    /\ Failed
    /\ outcome.raised = NoSolutionError
    /\ price_ref # 0
    /\ Len(prices) >= 4

----------------------------------------------------------------------------
(* Properties of RRMem, checked under SpecMem *)

\* the last key written, and the value the history records for key
LastKey == rrmem.first + Len(rrmem.written) - 1
WrittenAt(key) == rrmem.written[key - rrmem.first + 1]

\* C27: a history has memory_length + 1 slots; after the keys first..t were
\* written in increasing order, the read of t - k returns the value written
\* at t - k for every k in 0..memory_length, and the read of
\* t - (memory_length + 1) returns the value written at t; at the first
\* step, before and after its own write, the read of first - 1 (key -1 when
\* first = 0) returns the value given at construction.
C27_RoundRobin ==
    /\ Len(rrmem.memory) = rrmem.length + 1
    /\ rrmem.written # <<>> =>
           /\ \A k \in 0..rrmem.length :
                  LastKey - k >= rrmem.first =>
                      rr_get(rrmem.memory, LastKey - k) = WrittenAt(LastKey - k)
           /\ rr_get(rrmem.memory, LastKey - (rrmem.length + 1)) = WrittenAt(LastKey)
    /\ Len(rrmem.written) <= 1 =>
           rr_get(rrmem.memory, rrmem.first - 1) = rrmem.initial

\* more keys written than the memory has slots, so that slots were written
\* over, with different values at the keys that share the last slot written
C27_Witness ==
    /\ rrmem.length >= 2
    /\ Len(rrmem.written) > rrmem.length + 1
    /\ WrittenAt(LastKey) # WrittenAt(LastKey - (rrmem.length + 1))
    /\ WrittenAt(LastKey) # WrittenAt(LastKey - 1)

----------------------------------------------------------------------------
(* Properties of the simulation, checked under Spec *)

\* time_step(t - 1) has returned
StepReturned == pc = "ready" /\ t > 0

\* C1: after time_step(t) returns, the states written for t add up to 0.
C1_MarketClears ==
    StepReturned => SumOver(Agents, [n \in Agents |-> rr_get(state[n], t - 1)]) = 0

\* the influence on agent n of its neighbours' states of the step before
PriorInfluence(n) == SumOver(neighbors(n), [m \in neighbors(n) |-> used.prior[m]])

\* C4: within time_step no state or perceived price is written before every
\* agent's quote is inserted and compute_price has returned, and every
\* influence term of the step, in the quoting and in the updating pass, is
\* the sum of the neighbours' states written in the step before.
C4_TwoPass ==
    /\ [][(state' # state \/ perc_price' # perc_price) =>
              /\ pc = "update"
              /\ Len(inserted) = Cardinality(Agents)
              /\ Returned]_vars
    /\ [](/\ \A n \in 1..Len(used.quoted) : used.quoted[n].infl = PriorInfluence(n)
          /\ \A n \in 1..Len(used.updated) : used.updated[n].infl = PriorInfluence(n))

\* a second step has returned in which agent 2 summed the state of agent 1
\* after agent 1 had written a different state for the running step
C4_Witness ==
    /\ StepReturned
    /\ t >= 2
    /\ <<2, 1>> \in edges
    /\ memory_length >= 1
    /\ rr_get(state[1], t - 1) # used.prior[1]
    /\ used.updated[2].infl = used.prior[1]


\* the number of agents of the network
N == Cardinality(Agents)

\* C15: a time_step performs one clear, then one insert per agent, then one
\* compute_price, and no other call on the tracker; when it returns the
\* tracker holds N pairs (2N prices) and the price returned is the
\* referencePrice of the tracker.
C15_StepProtocol ==
    /\ [][/\ pc = "ready" => (outcome'.op = "clear_prices" /\ inserted' = <<>>)
          /\ (pc = "quote" /\ pc' # "raised") =>
                 /\ outcome'.op = "insert"
                 /\ Len(inserted') = Len(inserted) + 1
                 /\ Len(inserted') = node
          /\ pc = "solve" =>
                 /\ outcome'.op = "compute_price"
                 /\ Len(inserted) = N
                 /\ UNCHANGED <<prices, balance_differences, inserted>>
          /\ pc = "update" => UNCHANGED pr_vars]_vars
    /\ [](StepReturned =>
              /\ Len(inserted) = N
              /\ Len(prices) = 2 * N
              /\ Returned
              /\ step_price = outcome.ret
              /\ step_price = price_ref)

\* a second step has returned a price other than the one it started from
C15_Witness ==
    /\ StepReturned
    /\ t >= 2
    /\ Len(prices) = 2 * N
    /\ outcome.ref # 0
    /\ price_ref # outcome.ref

\* C16: the run of agents constructed with memory_length and the run of the
\* same agents constructed with the shortest memory, on the same network,
\* parameters, initial states, error samples and steps, agree step by step:
\* every agent quotes from the same K (so the same quotes reach the tracker
\* and the same price clears) and writes the same state.
C16_MemoryLengthIrrelevant ==
    /\ \A n \in 1..Len(used.quoted) : used.quoted[n].K = shadow.quoted[n]
    /\ \A n \in Agents : rr_get(state[n], t - 1) = rr_get(shadow.state[n], t - 1)
    /\ pc = "update" =>
           \A n \in 1..(node - 1) : rr_get(state[n], t) = rr_get(shadow.state[n], t)

\* two steps of a longer memory in which an agent with a neighbour and a
\* weight on its last perceived price changed its state from step to step
C16_Witness ==
    /\ StepReturned
    /\ t >= 2
    /\ memory_length > MinMemoryLength
    /\ \E n \in Agents :
           /\ B[n] # 0
           /\ neighbors(n) # {}
           /\ rr_get(state[n], 0) # rr_get(state[n], 1)
           /\ \E m \in neighbors(n) : rr_get(state[m], 0) # rr_get(state[m], 1)

\* the step whose update pass is recorded in used.updated
StepTime == IF pc = "ready" THEN t - 1 ELSE t

\* C25: the K of update_state equals the K compute_price_points computed
\* earlier in the same step, and it is made of eps[t], the perceived price of
\* step t - 1 and the neighbours' states of step t - 1, whatever was written
\* for t in the meantime.
C25_SameDrift ==
    \A n \in 1..Len(used.updated) :
        /\ used.updated[n].K = used.quoted[n].K
        /\ used.updated[n].K =
               (A[n] + B[n]) * rr_get(eps[n], StepTime)
                   - B[n] * rr_get(perc_price[n], StepTime - 1)
                   + C[n] * PriorInfluence(n) * Unit
                   + D[n] * Unit

\* a later step has returned in which an agent that weighs its last perceived
\* price perceived a new price, and its neighbour, updated before it, wrote
\* a new state
C25_Witness ==
    /\ StepReturned
    /\ t >= 2
    /\ <<2, 1>> \in edges
    /\ B[2] # 0
    /\ rr_get(perc_price[2], t - 1) # rr_get(perc_price[2], t - 2)
    /\ rr_get(state[1], t - 1) # used.prior[1]
    /\ Len(used.updated) = N

\* L_t of the update of agent n recorded in used
LevelOf(n) == (A[n] + B[n]) * step_price + used.updated[n].K

\* C26: update_state writes -1 for L < -1, 0 for -1 <= L <= 1 and 1 for
\* L > 1, where L = (A + B) * price + K, and every slot of every state history
\* is -1, 0 or 1.
C26_Thresholds ==
    /\ \A n \in Agents : \A k \in 1..Len(state[n]) : state[n][k] \in {-1, 0, 1}
    /\ \A n \in 1..Len(used.written) :
           /\ rr_get(state[n], StepTime) = used.written[n]
           /\ LevelOf(n) < -Unit => used.written[n] = -1
           /\ (-Unit <= LevelOf(n) /\ LevelOf(n) <= Unit) => used.written[n] = 0
           /\ LevelOf(n) > Unit => used.written[n] = 1

\* a later step has returned in which an agent's level was on the buy cutoff
\* and it wrote a hold, after a step in which an agent wrote a buy or a sell
C26_Witness ==
    /\ StepReturned
    /\ t >= 2
    /\ Len(used.written) = N
    /\ \E n \in Agents : LevelOf(n) = -Unit /\ used.written[n] = 0
    /\ \E n \in Agents : used.prior[n] # 0

\* the agents with an edge to v
predecessors(v) == {u \in Agents : <<u, v>> \in edges}

\* C28: the influence term of agent v, in the quoting and in the updating
\* pass, is the sum of the states of step t - 1 of the agents u with an edge
\* u -> v.
C28_InfluencedByPredecessors ==
    /\ \A v \in 1..Len(used.quoted) :
           used.quoted[v].infl =
               SumOver(predecessors(v), [u \in predecessors(v) |-> used.prior[u]])
    /\ \A v \in 1..Len(used.updated) :
           used.updated[v].infl =
               SumOver(predecessors(v), [u \in predecessors(v) |-> used.prior[u]])

\* C30: a compute_price that fails inside time_step(t) ends the step, evolve
\* and the function consuming it with that failure; nothing runs after it,
\* no price or tuple is collected for the step, and no state or perceived
\* price has been written by the step: the histories are written only by the
\* update pass, which follows a compute_price that returned.
C30_FailurePropagates ==
    /\ [][/\ pc \in {"ready", "quote", "solve"} => UNCHANGED <<state, perc_price>>
          /\ (pc = "solve" /\ outcome'.raised # "none") =>
                 /\ pc' = "raised"
                 /\ run'.raised = outcome'.raised
                 /\ run'.prices = run.prices /\ run'.data = run.data
                 /\ t' = t
          /\ pc # "raised"]_vars
    /\ []((pc = "raised" /\ Failed) =>
              /\ run.raised = outcome.raised
              /\ used.updated = <<>> /\ used.written = <<>>
              /\ Len(inserted) = N
              /\ \A n \in Agents : rr_get(state[n], t - 1) = used.prior[n])

\* evolve ended by a compute_price that failed in a later step, after every
\* agent had drawn its eps[t] and quoted, and after a step that wrote states
\* other than the initial ones
C30_Witness ==
    /\ pc = "raised"
    /\ Failed
    /\ t >= 1
    /\ run.raised = outcome.raised
    /\ Len(used.quoted) = N
    /\ \E n \in Agents : rr_get(eps[n], t) # rr_get(eps[n], t - 1)
    /\ \E n \in Agents : rr_get(state[n], t - 1) # rr_get(state[n], t)

----------------------------------------------------------------------------
(* Properties of simulate_prices and simulate_and_distill, checked under   *)
(* SpecRun                                                                 *)

\* the tuple of step time when the graph distiller gets the network and
\* the tracker distiller gets the tracker
TupleOf(time) ==
    (IF run.graph_distiller
     THEN <<Called("graph_distiller", time, "graph")>> ELSE <<>>)
    \o (IF run.price_range_distiller
        THEN <<Called("price_range_distiller", time, "price_range")>> ELSE <<>>)

\* C17: in simulate_and_distill the tuple of every step t holds, in this
\* order, the result of the graph distiller called with (t, graph) and the
\* result of the tracker distiller called with (t, price_range), each only
\* when the distiller is not None.
C17_DistillersGetTheirObject ==
    \A k \in 1..Len(run.data) : run.data[k] = TupleOf(k - 1)

\* C18: every step of range(MaxT) that returns is yielded once, in order,
\* with the price its compute_price returned; the step t is entered only
\* once the t results before it have been consumed; simulate_prices holds
\* the prices in that order, one per step done, and MaxT of them at the end;
\* simulate_and_distill likewise holds one tuple per step done, in order.
C18_OnePricePerStep ==
    /\ [][(pc = "update" /\ pc' = "ready") =>
              /\ t' = t + 1
              /\ run.fn = "simulate_prices" =>
                     run'.prices = Append(run.prices, outcome.ret)
              /\ run.fn = "simulate_and_distill" =>
                     /\ Len(run'.data) = Len(run.data) + 1
                     /\ SubSeq(run'.data, 1, Len(run.data)) = run.data]_vars
    /\ [][(run'.prices # run.prices \/ run'.data # run.data \/ t' # t) =>
              (pc = "update" /\ pc' = "ready")]_vars
    /\ [](/\ run.fn = "simulate_prices" => Len(run.prices) = t
          /\ run.fn = "simulate_and_distill" =>
                 /\ Len(run.data) = t
                 /\ \A k \in 1..Len(run.data) :
                        \A j \in 1..Len(run.data[k]) : run.data[k][j].t = k - 1
          /\ t <= MaxT)

\* simulate_prices has run all its steps and holds two different prices
C18_Witness ==
    /\ run.fn = "simulate_prices"
    /\ pc = "ready"
    /\ t = MaxT
    /\ Len(run.prices) >= 2
    /\ run.prices[1] # run.prices[2]

\* C19: construction rejects A + B = 0, so no step runs with an agent whose
\* A + B is 0 and no step divides by zero.
C19_ZeroSlopeRejected ==
    /\ pc \in {"quote", "solve", "update", "raised"} =>
           \A n \in Agents : A[n] + B[n] # 0
    /\ run.raised # ZeroDivisionError

----------------------------------------------------------------------------
(* Properties of populate_graph, checked under SpecPop *)

\* C20: populate_graph on a graph of N nodes with a generator for C creates
\* N distinct agents, the agent of the i-th node taking the i-th value of
\* the generator; the generator is left at its (N+1)-th value; the constant
\* A is every agent's A; node_map maps every original node to its agent and
\* its values are exactly the nodes of the returned graph.
C20_OneDrawPerNode ==
    pop.pc = "returned" =>
        LET nodes == pop.nodes
            nmap  == pop.node_map
        IN  /\ DOMAIN nmap = {nodes[i] : i \in 1..Len(nodes)}
            /\ Cardinality({nmap[nk] : nk \in DOMAIN nmap}) = Len(nodes)
            /\ Len(pop.generator) >= Len(nodes)
            /\ \A i \in 1..Len(nodes) :
                   /\ nmap[nodes[i]].C = pop.generator[i]
                   /\ nmap[nodes[i]].A = pop.A
                   /\ nmap[nodes[i]].name = nodes[i]
            /\ pop.gen = SubSeq(pop.generator, Len(nodes) + 1, Len(pop.generator))
            /\ pop.graph_nodes = {nmap[nk] : nk \in DOMAIN nmap}

\* a graph of several nodes populated from a generator that had values to
\* spare and yielded different values
C20_Witness ==
    /\ pop.pc = "returned"
    /\ Len(pop.nodes) >= 2
    /\ Len(pop.generator) > Len(pop.nodes)
    /\ pop.generator[1] # pop.generator[2]

====
